---- MODULE Spec2Model ----
(***************************************************************************)
(* Model of the manus extension of nanobot: the SSE fan-out registry of    *)
(* ManusWebChannel (src/manus/channel.py) and the event-emitting agent     *)
(* iteration loop of ManusAgentLoop (src/manus/loop.py).                   *)
(*                                                                         *)
(* Everything runs on one asyncio event loop (src/manus/cli.py:107-124,    *)
(* src/manus/channel.py:144): a task runs until it awaits something that   *)
(* really suspends, so the steps of one task between two suspension points *)
(* are never interleaved with steps of another task.                       *)
(***************************************************************************)
EXTENDS Integers, Sequences, FiniteSets, TLC

\* ---------------------------------------------------------------- bounds
\* stream handlers (GET /api/events/{chat_id}) opened in one behaviour
NumSinks == 2
\* calls of send made by the dispatcher in one behaviour of SpecBus
MaxPublishes == 2
\* stream handlers opened in one behaviour of Spec
TurnSinks == 1
\* largest iteration budget (max_iterations) the agent is configured with
MaxIter == 2
\* most tool calls one decision carries
MaxCalls == 2

\* conversation ids of published messages; "*" is the wildcard key of send
ChatIds == {"a", "b", "*"}
\* conversation ids stream clients ask for
SubIds == {"a", "*"}
Sinks == 1..NumSinks

\* asyncio.Queue() is built without a maxsize: 0 means unbounded
maxsize == 0

VARIABLES
    event_queues,   \* self._event_queues: dict chat_id -> list of queues
    queue,          \* queue[h]: pending items of the asyncio.Queue of handler h
    gen,            \* gen[h]: generator of handler h: "new", "open" or "done"
    lastExit,       \* how the latest generator to leave left: cancelled, failed, closed
    gchat,          \* gchat[h]: the chat_id argument of handler h
    yielded,        \* yielded[h]: the SSE records handler h has yielded so far
    sendPc,         \* position inside send: "none" when no send is running
    sendMsg,        \* the msg argument of the running send
    sendIdx,        \* index of the list iterator of the running for loop
    sendDetached,   \* the list being iterated is no longer the one in the dict
    sendTarget,     \* the queue the running send is putting into (0: none)
    pc,             \* position of the agent task
    ret,            \* where the agent task continues when the running send returns
    max_iterations, \* self.max_iterations
    inbound,        \* the InboundMessage being processed
    session_key,    \* key of the session of the turn
    channel,        \* channel argument of _run_agent_loop
    chat_id,        \* chat_id argument of _run_agent_loop
    iteration,      \* local iteration of _run_agent_loop
    final_content,  \* local final_content of _run_agent_loop
    tools_used,     \* local tools_used of _run_agent_loop
    messages,       \* local messages of _run_agent_loop: the model context
    response,       \* the decision returned by provider.chat
    tcIdx,          \* position of the for loop over response.tool_calls
    result,         \* the value returned by tools.execute
    outbox,         \* the OutboundMessage returned by _process_message
    sessions,       \* the sessions held by the session manager: key -> messages
    saves,          \* history: number of sessions.save calls
    archive,        \* the detached task created by /new: its state and its messages
    decisions,      \* history: what provider.chat did at each call of the turn
    published,      \* history: every msg send was called with, in call order
    received,       \* history: received[h] = indices (into published) put in queue[h]
    expected        \* history: expected[h] = indices published while h was registered

busVars == <<event_queues, queue, gen, lastExit, gchat, yielded, sendPc, sendMsg, sendIdx,
             sendDetached, sendTarget, published, received, expected>>
agentVars == <<pc, ret, max_iterations, inbound, session_key, channel, chat_id,
               iteration, final_content, tools_used, messages, response, tcIdx,
               result, outbox, sessions, saves, archive, decisions>>
vars == <<busVars, agentVars>>

NoMsg == [channel |-> "", chat_id |-> "", content |-> "", metadata |-> <<>>]

\* ------------------------------------------------------- dict and list helpers
\* dict.setdefault(c, []).append(q)
SetdefaultAppend(d, c, q) ==
    IF c \in DOMAIN d
    THEN [d EXCEPT ![c] = Append(@, q)]
    ELSE [k \in DOMAIN d \cup {c} |-> IF k = c THEN <<q>> ELSE d[k]]

InList(L, q) == \E i \in 1..Len(L) : L[i] = q

\* list.remove(q): drops the first occurrence of q
ListRemove(L, q) ==
    LET i == CHOOSE j \in 1..Len(L) : L[j] = q /\ \A k \in 1..(j-1) : L[k] # q
    IN  SubSeq(L, 1, i-1) \o SubSeq(L, i+1, Len(L))

\* del d[c]
DictDel(d, c) == [k \in DOMAIN d \ {c} |-> d[k]]

\* the queue of a handler built as asyncio.Queue(maxsize=1)
FullAtOne(q) == Len(q) >= 1

\* asyncio.Queue.full(): a queue built with maxsize <= 0 is never full
Full(q) == IF maxsize <= 0 THEN FALSE ELSE Len(q) >= maxsize

\* a generator whose registration comes after its first yield: nothing is
\* registered yet when connected is emitted
RegisterAfterYield(d, c, q) == d

\* the registration of _event_generator
Register(d, c, q) == SetdefaultAppend(d, c, q)

\* a finally block that deletes the whole entry of its conversation id
UnregisterKey(d, c, q) == IF c \in DOMAIN d THEN DictDel(d, c) ELSE d

\* a finally block that drops the key of a sole subscriber but never calls remove
UnregisterLeak(d, c, q) ==
    IF c \in DOMAIN d /\ d[c] = <<q>> THEN DictDel(d, c) ELSE d

\* a finally block without its last two lines: the emptied list stays in the dict
UnregisterKeepEmpty(d, c, q) ==
    IF c \in DOMAIN d /\ InList(d[c], q)
    THEN [d EXCEPT ![c] = ListRemove(d[c], q)]
    ELSE d

\* the finally block of _event_generator: lines 123-128
Unregister(d, c, q) ==
    IF c \in DOMAIN d
    THEN LET L == IF InList(d[c], q) THEN ListRemove(d[c], q) ELSE d[c]
         IN  IF L = <<>> THEN DictDel(d, c) ELSE [d EXCEPT ![c] = L]
    ELSE d

\* ------------------------------------------------------------ stream handler
Connected(c) == [event_type |-> "connected", chat_id |-> c]

\* dict.get(key, default) on the metadata mapping
MetaGet(md, key, default) == IF key \in DOMAIN md THEN md[key] ELSE default

\* the record built at lines 107-116; datetime.now() is the opaque value "now"
Data(msg) ==
    [event_type |-> MetaGet(msg.metadata, "event_type", "message"),
     content    |-> msg.content,
     metadata   |-> msg.metadata,
     timestamp  |-> IF MetaGet(msg.metadata, "timestamp", "") # ""
                    THEN msg.metadata["timestamp"] ELSE "now",
     chat_id    |-> msg.chat_id]

\* json.dumps of a dict: the members of the JSON object, as <<key, value>> pairs
JsonObject(d) == { <<k, d[k]>> : k \in DOMAIN d }

\* a serialisation that leaves out the members of the nested metadata object
\* whose key is not event_type
DumpsKindOnly(data) ==
    JsonObject([data EXCEPT !.metadata =
                   JsonObject([k \in DOMAIN @ \cap {"event_type"} |-> @[k]])])

\* json.dumps(data) at line 117: metadata is a nested object
Dumps(data) == JsonObject([data EXCEPT !.metadata = JsonObject(@)])

\* the dict a stream client parses a JSON object into
Loads(obj) == [k \in {p[1] : p \in obj} |-> (CHOOSE p \in obj : p[1] = k)[2]]

\* A put that waits: the running send is suspended in queue.put on a full queue
SendBlocked == sendTarget # 0 /\ Full(queue[sendTarget])

AgentSuspended == pc \in {"idle", "await_chat", "await_tool", "done"}

\* Another task runs only while the agent task is suspended
HandlersMayRun == (sendPc = "none" /\ AgentSuspended) \/ SendBlocked

Registered(h) ==
    gchat[h] \in DOMAIN event_queues /\ InList(event_queues[gchat[h]], h)

\* first resumption of the generator: lines 98-102
Subscribe(h, c) ==
    /\ HandlersMayRun
    /\ gen[h] = "new"
    /\ \A g \in 1..(h-1) : gen[g] # "new"
    /\ event_queues' = Register(event_queues, c, h)
    /\ gen' = [gen EXCEPT ![h] = "open"]
    /\ gchat' = [gchat EXCEPT ![h] = c]
    /\ yielded' = [yielded EXCEPT ![h] = <<JsonObject(Connected(c))>>]
    /\ UNCHANGED <<queue, lastExit, sendPc, sendMsg, sendIdx, sendDetached,
                   sendTarget, published, received, expected>>
    /\ UNCHANGED agentVars

\* one round of the consume loop: lines 105-117
Consume(h) ==
    /\ HandlersMayRun
    /\ gen[h] = "open"
    /\ queue[h] # <<>>
    /\ queue' = [queue EXCEPT ![h] = Tail(@)]
    /\ yielded' = [yielded EXCEPT ![h] = Append(@, Dumps(Data(Head(queue[h]))))]
    /\ UNCHANGED <<event_queues, gen, lastExit, gchat, sendPc, sendMsg, sendIdx, sendDetached,
                   sendTarget, published, received, expected>>
    /\ UNCHANGED agentVars

\* the generator leaves through its finally block (lines 123-128); the queue
\* object dies with the generator frame, and its history with it
Leave(h, how) ==
    /\ event_queues' = Unregister(event_queues, gchat[h], h)
    /\ gen' = [gen EXCEPT ![h] = "done"]
    /\ lastExit' = how
    /\ queue' = [queue EXCEPT ![h] = <<>>]
    /\ yielded' = [yielded EXCEPT ![h] = <<>>]
    /\ sendDetached' =
          IF /\ sendPc \in {"for_chat", "put_chat", "for_wild", "put_wild"}
             /\ (IF sendPc \in {"for_chat", "put_chat"} THEN sendMsg.chat_id ELSE "*")
                   = gchat[h]
             /\ gchat[h] \notin DOMAIN Unregister(event_queues, gchat[h], h)
          THEN TRUE ELSE sendDetached
    /\ received' = [received EXCEPT ![h] = <<>>]
    /\ expected' = [expected EXCEPT ![h] = <<>>]
    /\ UNCHANGED <<gchat, sendPc, sendMsg, sendIdx, sendTarget, published>>
    /\ UNCHANGED agentVars

\* asyncio.CancelledError at the await or the yield: lines 118-120, then finally
ExitCancel(h) ==
    /\ HandlersMayRun
    /\ gen[h] = "open"
    /\ Leave(h, "cancelled")

\* an exception raised while an item taken from the queue is turned into a
\* record: lines 121-122 swallow it, then finally
ExitError(h) ==
    /\ HandlersMayRun
    /\ gen[h] = "open"
    /\ queue[h] # <<>>
    /\ Leave(h, "failed")

\* the consumer closes the generator at a yield (GeneratorExit): finally only
ExitClose(h) ==
    /\ HandlersMayRun
    /\ gen[h] = "open"
    /\ Leave(h, "closed")

\* -------------------------------------------------------------------- send
\* the key whose list the running for loop iterates
SendKey == IF sendPc \in {"for_chat", "put_chat"} THEN sendMsg.chat_id ELSE "*"

\* the list object the running for loop iterates
SendList == IF sendDetached \/ SendKey \notin DOMAIN event_queues
            THEN <<>> ELSE event_queues[SendKey]

\* entry of send(msg): line 157
SendCall(msg) ==
    /\ sendPc' = "if_chat"
    /\ sendMsg' = msg
    /\ sendIdx' = 1
    /\ sendDetached' = FALSE
    /\ sendTarget' = 0
    /\ published' = Append(published, msg)
    /\ expected' = [h \in DOMAIN expected |->
                      IF Registered(h) /\ gchat[h] \in {msg.chat_id, "*"}
                      THEN Append(expected[h], Len(published) + 1)
                      ELSE expected[h]]

\* a send that looks its list up with setdefault(msg.chat_id, [])
SendNextSetdefault ==
    /\ sendPc \in {"if_chat", "for_chat", "if_wild", "for_wild"}
    /\ CASE sendPc = "if_chat" ->
              /\ sendPc' = "for_chat"
              /\ event_queues' =
                    IF sendMsg.chat_id \in DOMAIN event_queues THEN event_queues
                    ELSE [k \in DOMAIN event_queues \cup {sendMsg.chat_id} |->
                            IF k = sendMsg.chat_id THEN <<>> ELSE event_queues[k]]
              /\ UNCHANGED <<sendIdx, sendTarget, sendDetached>>
         [] sendPc = "if_wild" ->
              /\ sendPc' = IF "*" \in DOMAIN event_queues THEN "for_wild" ELSE "return"
              /\ UNCHANGED <<event_queues, sendIdx, sendTarget, sendDetached>>
         [] sendPc \in {"for_chat", "for_wild"} ->
              /\ IF sendIdx <= Len(SendList)
                 THEN /\ sendTarget' = SendList[sendIdx]
                      /\ sendIdx' = sendIdx + 1
                      /\ sendPc' = IF sendPc = "for_chat" THEN "put_chat" ELSE "put_wild"
                      /\ UNCHANGED sendDetached
                 ELSE /\ sendPc' = IF sendPc = "for_chat" THEN "if_wild" ELSE "return"
                      /\ sendIdx' = 1
                      /\ sendTarget' = 0
                      /\ sendDetached' = FALSE
              /\ UNCHANGED event_queues
    /\ UNCHANGED <<queue, gen, lastExit, gchat, yielded, sendMsg,
                   published, received, expected>>
    /\ UNCHANGED agentVars

\* control flow of send between two puts: lines 159-160 and 163-164
SendNext ==
    /\ sendPc \in {"if_chat", "for_chat", "if_wild", "for_wild"}
    /\ CASE sendPc = "if_chat" ->
              /\ sendPc' = IF sendMsg.chat_id \in DOMAIN event_queues
                           THEN "for_chat" ELSE "if_wild"
              /\ UNCHANGED <<sendIdx, sendTarget, sendDetached>>
         [] sendPc = "if_wild" ->
              /\ sendPc' = IF "*" \in DOMAIN event_queues THEN "for_wild" ELSE "return"
              /\ UNCHANGED <<sendIdx, sendTarget, sendDetached>>
         [] sendPc = "for_chat" ->
              IF sendIdx <= Len(SendList)
              THEN /\ sendTarget' = SendList[sendIdx]
                   /\ sendIdx' = sendIdx + 1
                   /\ sendPc' = "put_chat"
                   /\ UNCHANGED sendDetached
              ELSE /\ sendPc' = "if_wild"
                   /\ sendIdx' = 1
                   /\ sendTarget' = 0
                   /\ sendDetached' = FALSE
         [] sendPc = "for_wild" ->
              IF sendIdx <= Len(SendList)
              THEN /\ sendTarget' = SendList[sendIdx]
                   /\ sendIdx' = sendIdx + 1
                   /\ sendPc' = "put_wild"
                   /\ UNCHANGED sendDetached
              ELSE /\ sendPc' = "return"
                   /\ sendIdx' = 1
                   /\ sendTarget' = 0
                   /\ sendDetached' = FALSE
    /\ UNCHANGED <<event_queues, queue, gen, lastExit, gchat, yielded, sendMsg,
                   published, received, expected>>
    /\ UNCHANGED agentVars

\* await queue.put(msg): lines 161 and 165; waits while the queue is full
SendPut ==
    /\ sendPc \in {"put_chat", "put_wild"}
    /\ ~Full(queue[sendTarget])
    /\ queue' = [queue EXCEPT ![sendTarget] = Append(@, sendMsg)]
    /\ received' = [received EXCEPT ![sendTarget] = Append(@, Len(published))]
    /\ sendPc' = IF sendPc = "put_chat" THEN "for_chat" ELSE "for_wild"
    /\ sendTarget' = 0
    /\ UNCHANGED <<event_queues, gen, lastExit, gchat, yielded, sendMsg, sendIdx, sendDetached,
                   published, expected>>
    /\ UNCHANGED agentVars

\* send returns to its caller: the dispatcher, or the agent task at ret
SendReturn ==
    /\ sendPc = "return"
    /\ sendPc' = "none"
    /\ sendMsg' = NoMsg
    /\ pc' = IF pc = "publish" THEN ret ELSE pc
    /\ UNCHANGED <<event_queues, queue, gen, lastExit, gchat, yielded, sendIdx,
                   sendDetached, sendTarget, published, received, expected>>
    /\ UNCHANGED <<ret, max_iterations, archive, inbound, session_key, channel, chat_id,
                   iteration, final_content, tools_used, messages, response, tcIdx,
                   result, outbox, sessions, saves, decisions>>

\* ------------------------------------------------- the dispatcher as publisher
MetaSets == { [event_type |-> "thinking", iteration |-> 3, tool |-> "search"],
              [iteration |-> 3, tool |-> "search"] }

\* the messages the dispatcher hands to send: those of conversation b carry no
\* event_type
BusMsgs ==
    { msg \in { [channel |-> "web", chat_id |-> c, content |-> "x", metadata |-> m] :
                  c \in ChatIds, m \in MetaSets } :
        ("event_type" \in DOMAIN msg.metadata) <=> (msg.chat_id # "b") }

\* some caller awaits send(msg)
Publish(msg) ==
    /\ pc = "idle"
    /\ sendPc = "none"
    /\ Len(published) < MaxPublishes
    /\ SendCall(msg)
    /\ UNCHANGED <<event_queues, queue, gen, lastExit, gchat, yielded, received>>
    /\ UNCHANGED agentVars

\* ---------------------------------------------------------------- agent loop
None == "None"

\* text is kept as a sequence of pieces so that str.split can be computed
RECURSIVE Join(_)
Join(parts) == IF parts = <<>> THEN "" ELSE Head(parts) \o Join(Tail(parts))

HasColon(parts) == \E i \in 1..Len(parts) : parts[i] = ":"

FirstColon(parts) ==
    CHOOSE i \in 1..Len(parts) : parts[i] = ":" /\ \A j \in 1..(i-1) : parts[j] # ":"

LastColon(parts) ==
    CHOOSE i \in 1..Len(parts) : parts[i] = ":" /\ \A j \in (i+1)..Len(parts) : parts[j] # ":"

\* a split at the last colon: chat_id.rsplit(":", 1)
OriginLastColon(parts) ==
    IF HasColon(parts)
    THEN <<Join(SubSeq(parts, 1, LastColon(parts) - 1)),
           Join(SubSeq(parts, LastColon(parts) + 1, Len(parts)))>>
    ELSE <<"cli", Join(parts)>>

\* lines 195-201: <<origin_channel, origin_chat_id>> of a system message
Origin(parts) ==
    IF HasColon(parts)
    THEN <<Join(SubSeq(parts, 1, FirstColon(parts) - 1)),
           Join(SubSeq(parts, FirstColon(parts) + 1, Len(parts)))>>
    ELSE <<"cli", Join(parts)>>

\* str.strip(): leading and trailing whitespace is dropped
Whitespace == {" ", "\n", "\t"}

RECURSIVE LStrip(_)
LStrip(cs) == IF cs # <<>> /\ Head(cs) \in Whitespace THEN LStrip(Tail(cs)) ELSE cs

RECURSIVE RStrip(_)
RStrip(cs) ==
    IF cs # <<>> /\ cs[Len(cs)] \in Whitespace
    THEN RStrip(SubSeq(cs, 1, Len(cs) - 1)) ELSE cs

Strip(cs) == RStrip(LStrip(cs))

\* str.lower(), on the letters that occur in the contents below
LowerChar(c) ==
    CASE c = "N" -> "n" [] c = "E" -> "e" [] c = "W" -> "w"
      [] c = "H" -> "h" [] c = "L" -> "l" [] c = "P" -> "p"
      [] OTHER -> c

Lower(cs) == [i \in 1..Len(cs) |-> LowerChar(cs[i])]

\* line 138: cmd = msg.content.strip().lower(); content is a sequence of characters
Cmd(content) == Join(Lower(Strip(content)))

\* contents that are a command, with and without case and padding
NewContents == { <<"/", "n", "e", "w">>, <<" ", "/", "N", "e", "W", "\n">> }

HelpContents == { <<"/", "h", "e", "l", "p">>, <<"/", "H", "E", "L", "P", " ">> }

\* a content that contains a command and goes on
ContainsNew == <<"/", "n", "e", "w", " ", "x">>

Inbound(ch, c, content, sender) ==
    [channel |-> ch, chat_id |-> c, content |-> content, sender_id |-> sender,
     metadata |-> <<>>]

\* the inbound units of work
InMsgs ==
    { Inbound("web", c, <<"h", "i">>, "user") : c \in {<<"a">>, <<"*">>} }
    \cup { Inbound("web", c, t, "user") :
             c \in {<<"a">>, <<"b">>}, t \in NewContents \cup HelpContents }
    \cup { Inbound("web", <<"a">>, ContainsNew, "user"),
           Inbound("system", <<"web", ":", "a">>, <<"h", "i">>, "cron"),
           Inbound("system", <<"web", ":", "a", ":", "b">>, <<"/", "n", "e", "w">>, "cron"),
           Inbound("system", <<"b">>, <<"/", "H", "E", "L", "P", " ">>, "cron") }

NoInbound == Inbound("", <<>>, <<>>, "")

\* no detached task has been created
NoArchive == [state |-> "none", messages |-> <<>>]

\* the fixed texts of lines 153 and 156 (without the emoji and the dashes)
NewText == "New session started. Memory consolidation in progress."

HelpText == "nanobot commands:\n/new - Start a new conversation\n/help - Show available commands"

\* the tools a decision asks for, in order: exec, search, exec, ...
ToolName(i) == IF i % 2 = 1 THEN "exec" ELSE "search"

ToolCalls(k) == [i \in 1..k |-> [id |-> i, name |-> ToolName(i), arguments |-> "{}"]]

\* what provider.chat may return
Decisions ==
    { [content |-> "ans", reasoning_content |-> r, tool_calls |-> ToolCalls(k)] :
        r \in {None, "why"}, k \in 0..MaxCalls }

NoResponse == [content |-> None, reasoning_content |-> None, tool_calls |-> <<>>]

\* tools.execute(name, arguments): the value of a tool that works, or the text
\* of the failure of one that does not
Execute(name) == IF name = "exec" THEN "Error: tool failed" ELSE "ok"

\* msg.session_key of an InboundMessage
SessionKey(msg) == msg.channel \o ":" \o Join(msg.chat_id)

\* sessions.get_or_create(key)
GetOrCreate(ss, key) ==
    IF key \in DOMAIN ss THEN ss
    ELSE [k \in DOMAIN ss \cup {key} |-> IF k = key THEN <<>> ELSE ss[k]]

\* context.build_messages(history, current_message, ...)
BuildMessages(history, content) ==
    <<[role |-> "system"]>> \o history \o <<[role |-> "user", content |-> content]>>

\* bus.publish_outbound(msg): the publish reaches send in the caller's task
PublishOutbound(msg, next) ==
    /\ SendCall(msg)
    /\ pc' = "publish"
    /\ ret' = next
    /\ UNCHANGED <<event_queues, queue, gen, lastExit, gchat, yielded, received>>

\* dict merge {**a, **b}
MetaMerge(a, b) ==
    [k \in DOMAIN a \cup DOMAIN b |-> IF k \in DOMAIN b THEN b[k] ELSE a[k]]

Event(ch, c, content, md) ==
    [channel |-> ch, chat_id |-> c, content |-> content, metadata |-> md]

\* a thinking event that lacks its event_type tag
ThinkingMetaUntagged(i) == [iteration |-> i]

\* metadata of the events of _run_agent_loop: lines 35-38, 55-59, 89-95, 105-110
ThinkingMeta(i) == [event_type |-> "thinking", iteration |-> i]

\* a reasoning event tagged with a 0-based iteration
ReasoningMetaZeroBased(i) ==
    [event_type |-> "thinking", is_reasoning |-> TRUE, iteration |-> i - 1]

ReasoningMeta(i) == [event_type |-> "thinking", is_reasoning |-> TRUE, iteration |-> i]

ToolCallMeta(tc, i) ==
    [event_type |-> "tool_call", tool |-> tc.name, arguments |-> tc.arguments,
     tool_call_id |-> tc.id, iteration |-> i]

ToolResultMeta(tc, i) ==
    [event_type |-> "tool_result", tool |-> tc.name, tool_call_id |-> tc.id,
     iteration |-> i]

\* _process_message up to the call of _run_agent_loop (lines 128-169) or to
\* the return of a command (lines 139-156), or _process_system_message up to
\* its call (lines 193-212)
StartTurn(msg) ==
    /\ pc = "idle"
    /\ sendPc = "none"
    /\ published = <<>>
    /\ inbound' = msg
    /\ LET system == msg.channel = "system"
           och == IF system THEN Origin(msg.chat_id)[1] ELSE msg.channel
           oid == IF system THEN Origin(msg.chat_id)[2] ELSE Join(msg.chat_id)
           key == IF system THEN och \o ":" \o oid ELSE SessionKey(msg)
           ss  == GetOrCreate(sessions, key)
           cmd == Cmd(msg.content)
       IN  /\ channel' = och
           /\ chat_id' = oid
           /\ session_key' = key
           /\ IF ~system /\ cmd = "/new"
              THEN /\ sessions' = [ss EXCEPT ![key] = <<>>]
                   /\ saves' = saves + 1
                   /\ archive' = [state |-> "pending", messages |-> ss[key]]
                   /\ outbox' = Event(och, oid, NewText, <<>>)
                   /\ pc' = "returned"
                   /\ UNCHANGED messages
              ELSE IF ~system /\ cmd = "/help"
              THEN /\ sessions' = ss
                   /\ outbox' = Event(och, oid, HelpText, <<>>)
                   /\ pc' = "returned"
                   /\ UNCHANGED <<saves, archive, messages>>
              ELSE /\ sessions' = ss
                   /\ messages' = BuildMessages(ss[key], Join(msg.content))
                   /\ pc' = "while"
                   /\ UNCHANGED <<saves, archive, outbox>>
    /\ iteration' = 0
    /\ final_content' = None
    /\ tools_used' = <<>>
    /\ UNCHANGED <<ret, max_iterations, response, tcIdx, result, decisions>>
    /\ UNCHANGED busVars

\* the detached task _consolidate_and_cleanup (lines 145-151) runs while the
\* agent task is suspended, and ends well or with an exception nobody awaits
Archive(ok) ==
    /\ archive.state = "pending"
    /\ sendPc = "none"
    /\ AgentSuspended
    /\ archive' = [archive EXCEPT !.state = IF ok THEN "archived" ELSE "failed"]
    /\ UNCHANGED <<pc, ret, max_iterations, inbound, session_key, channel, chat_id,
                   iteration, final_content, tools_used, messages, response, tcIdx,
                   result, outbox, sessions, saves, decisions>>
    /\ UNCHANGED busVars

\* a loop test that is off by one: while iteration <= self.max_iterations
WhileOffByOne ==
    /\ pc = "while"
    /\ IF iteration <= max_iterations
       THEN /\ iteration' = iteration + 1
            /\ PublishOutbound(Event(channel, chat_id, "", ThinkingMeta(iteration + 1)),
                               "await_chat")
       ELSE /\ pc' = "after_loop"
            /\ UNCHANGED <<iteration, ret>>
            /\ UNCHANGED busVars
    /\ UNCHANGED <<max_iterations, archive, inbound, session_key, channel, chat_id,
                   final_content, tools_used, messages, response, tcIdx, result,
                   outbox, sessions, saves, decisions>>

\* line 27-39: the loop test, and the thinking event of the new iteration
While ==
    /\ pc = "while"
    /\ IF iteration < max_iterations
       THEN /\ iteration' = iteration + 1
            /\ PublishOutbound(Event(channel, chat_id, "", ThinkingMeta(iteration + 1)),
                               "await_chat")
       ELSE /\ pc' = "after_loop"
            /\ UNCHANGED <<iteration, ret>>
            /\ UNCHANGED busVars
    /\ UNCHANGED <<max_iterations, archive, inbound, session_key, channel, chat_id,
                   final_content, tools_used, messages, response, tcIdx, result,
                   outbox, sessions, saves, decisions>>

\* the entry of the history decisions for a returned decision, and for a failure
Logged(r) == [calls |-> Len(r.tool_calls),
              reasoning |-> r.reasoning_content # None, raised |-> FALSE]

Raised == [calls |-> 0, reasoning |-> FALSE, raised |-> TRUE]

\* lines 41-60: provider.chat returns a decision; its reasoning is published
ChatReturns(r) ==
    /\ pc = "await_chat"
    /\ sendPc = "none"
    /\ response' = r
    /\ decisions' = Append(decisions, Logged(r))
    /\ IF r.reasoning_content # None
       THEN PublishOutbound(Event(channel, chat_id, r.reasoning_content,
                                  ReasoningMeta(iteration)), "has_tool_calls")
       ELSE /\ pc' = "has_tool_calls"
            /\ UNCHANGED ret
            /\ UNCHANGED busVars
    /\ UNCHANGED <<max_iterations, archive, inbound, session_key, channel, chat_id, iteration,
                   final_content, tools_used, messages, tcIdx, result, outbox,
                   sessions, saves>>

\* a loop that catches the failure of provider.chat and leaves the while loop
ChatRaisesCaught ==
    /\ pc = "await_chat"
    /\ sendPc = "none"
    /\ pc' = "after_loop"
    /\ decisions' = Append(decisions, Raised)
    /\ UNCHANGED <<ret, max_iterations, archive, inbound, session_key, channel, chat_id,
                   iteration, final_content, tools_used, messages, response, tcIdx,
                   result, outbox, sessions, saves>>
    /\ UNCHANGED busVars

\* lines 41-47: provider.chat raises; nothing in _run_agent_loop,
\* _process_message or _process_system_message catches it
ChatRaises ==
    /\ pc = "await_chat"
    /\ sendPc = "none"
    /\ pc' = "raised"
    /\ decisions' = Append(decisions, Raised)
    /\ UNCHANGED <<ret, max_iterations, archive, inbound, session_key, channel, chat_id,
                   iteration, final_content, tools_used, messages, response, tcIdx,
                   result, outbox, sessions, saves>>
    /\ UNCHANGED busVars

\* context.add_assistant_message(messages, content, tool_call_dicts, ...)
AddAssistantMessage(msgs, r) ==
    Append(msgs, [role |-> "assistant", content |-> r.content,
                  tool_calls |-> [i \in 1..Len(r.tool_calls) |->
                                    [id |-> r.tool_calls[i].id,
                                     name |-> r.tool_calls[i].name,
                                     arguments |-> r.tool_calls[i].arguments]]])

\* context.add_tool_result(messages, tool_call_id, tool_name, result)
AddToolResult(msgs, tc, res) ==
    Append(msgs, [role |-> "tool", tool_call_id |-> tc.id, name |-> tc.name,
                  content |-> res])

Reflection == [role |-> "user", content |-> "Reflect on the results and decide next steps."]

\* an else branch without its break: the loop goes on after the final answer
HasToolCallsNoBreak ==
    /\ pc = "has_tool_calls"
    /\ IF response.tool_calls # <<>>
       THEN /\ messages' = AddAssistantMessage(messages, response)
            /\ tcIdx' = 1
            /\ pc' = "for_tool"
            /\ UNCHANGED final_content
       ELSE /\ final_content' = response.content
            /\ pc' = "while"
            /\ UNCHANGED <<messages, tcIdx>>
    /\ UNCHANGED <<ret, max_iterations, archive, inbound, session_key, channel, chat_id,
                   iteration, tools_used, response, result, outbox, sessions, saves,
                   decisions>>
    /\ UNCHANGED busVars

\* lines 62-77 and 117-119
HasToolCalls ==
    /\ pc = "has_tool_calls"
    /\ IF response.tool_calls # <<>>
       THEN /\ messages' = AddAssistantMessage(messages, response)
            /\ tcIdx' = 1
            /\ pc' = "for_tool"
            /\ UNCHANGED final_content
       ELSE /\ final_content' = response.content
            /\ pc' = "after_loop"
            /\ UNCHANGED <<messages, tcIdx>>
    /\ UNCHANGED <<ret, max_iterations, archive, inbound, session_key, channel, chat_id,
                   iteration, tools_used, response, result, outbox, sessions, saves,
                   decisions>>
    /\ UNCHANGED busVars

\* a loop that starts the execution of a tool call without announcing it
ForToolUnannounced ==
    /\ pc = "for_tool"
    /\ IF tcIdx <= Len(response.tool_calls)
       THEN /\ tools_used' = Append(tools_used, response.tool_calls[tcIdx].name)
            /\ pc' = "await_tool"
            /\ UNCHANGED messages
       ELSE /\ messages' = Append(messages, Reflection)
            /\ pc' = "while"
            /\ UNCHANGED tools_used
    /\ UNCHANGED <<ret, max_iterations, archive, inbound, session_key, channel, chat_id,
                   iteration, final_content, response, tcIdx, result, outbox, sessions,
                   saves, decisions>>
    /\ UNCHANGED busVars

\* lines 79-96 and 116: the next tool call and its tool_call event, or the
\* reflection entry once the calls are done
ForTool ==
    /\ pc = "for_tool"
    /\ IF tcIdx <= Len(response.tool_calls)
       THEN LET tc == response.tool_calls[tcIdx]
            IN  /\ tools_used' = Append(tools_used, tc.name)
                /\ PublishOutbound(Event(channel, chat_id, "",
                                         ToolCallMeta(tc, iteration)), "await_tool")
                /\ UNCHANGED messages
       ELSE /\ messages' = Append(messages, Reflection)
            /\ pc' = "while"
            /\ UNCHANGED <<tools_used, ret>>
            /\ UNCHANGED busVars
    /\ UNCHANGED <<max_iterations, archive, inbound, session_key, channel, chat_id, iteration,
                   final_content, response, tcIdx, result, outbox, sessions, saves,
                   decisions>>

\* the text tools.execute returns for a tool that failed
IsFailure(res) == res = "Error: tool failed"

\* a loop in which the failure of a tool ends the turn like a failure of
\* provider.chat
ToolReturnsOrRaises ==
    /\ pc = "await_tool"
    /\ sendPc = "none"
    /\ LET tc == response.tool_calls[tcIdx]
           res == Execute(tc.name)
       IN  /\ result' = res
           /\ IF IsFailure(res)
              THEN /\ pc' = "raised"
                   /\ UNCHANGED ret
                   /\ UNCHANGED busVars
              ELSE PublishOutbound(Event(channel, chat_id, res,
                                         ToolResultMeta(tc, iteration)), "add_tool_result")
    /\ UNCHANGED <<max_iterations, archive, inbound, session_key, channel, chat_id, iteration,
                   final_content, tools_used, messages, response, tcIdx, outbox,
                   sessions, saves, decisions>>

\* lines 98-111: tools.execute returns and the tool_result event is published
ToolReturns ==
    /\ pc = "await_tool"
    /\ sendPc = "none"
    /\ LET tc == response.tool_calls[tcIdx]
           res == Execute(tc.name)
       IN  /\ result' = res
           /\ PublishOutbound(Event(channel, chat_id, res,
                                    ToolResultMeta(tc, iteration)), "add_tool_result")
    /\ UNCHANGED <<max_iterations, archive, inbound, session_key, channel, chat_id, iteration,
                   final_content, tools_used, messages, response, tcIdx, outbox,
                   sessions, saves, decisions>>

\* a loop that does not feed the result of a tool back into the context
AddResultDropped ==
    /\ pc = "add_tool_result"
    /\ tcIdx' = tcIdx + 1
    /\ pc' = "for_tool"
    /\ UNCHANGED <<ret, max_iterations, archive, inbound, session_key, channel, chat_id,
                   iteration, final_content, tools_used, messages, response, result,
                   outbox, sessions, saves, decisions>>
    /\ UNCHANGED busVars

\* lines 113-115
AddResult ==
    /\ pc = "add_tool_result"
    /\ messages' = AddToolResult(messages, response.tool_calls[tcIdx], result)
    /\ tcIdx' = tcIdx + 1
    /\ pc' = "for_tool"
    /\ UNCHANGED <<ret, max_iterations, archive, inbound, session_key, channel, chat_id,
                   iteration, final_content, tools_used, response, result, outbox,
                   sessions, saves, decisions>>
    /\ UNCHANGED busVars

\* a caller that passes the loop's final content on as it is
FallbackMissing(final, system) == final

\* lines 171-172 and 214-215
Fallback(final, system) ==
    IF final = None
    THEN (IF system THEN "Background task completed."
          ELSE "I've completed processing but have no response to give.")
    ELSE final

\* session.add_message(role, content, tools_used=...)
AddMessage(hist, role, content, used) ==
    Append(hist, [role |-> role, content |-> content, tools_used |-> used])

\* lines 171-187 and 214-226: the rest of the turn after _run_agent_loop returns
AfterLoop ==
    /\ pc = "after_loop"
    /\ LET system == inbound.channel = "system"
           final == Fallback(final_content, system)
           user == IF system
                   THEN "[System: " \o inbound.sender_id \o "] " \o Join(inbound.content)
                   ELSE Join(inbound.content)
           used == IF system \/ tools_used = <<>> THEN None ELSE tools_used
       IN  /\ sessions' = [sessions EXCEPT ![session_key] =
                              AddMessage(AddMessage(@, "user", user, None),
                                         "assistant", final, used)]
           /\ outbox' = Event(channel, chat_id, final,
                              IF system THEN [event_type |-> "message"]
                              ELSE MetaMerge(inbound.metadata,
                                             [event_type |-> "message"]))
    /\ saves' = saves + 1
    /\ pc' = "returned"
    /\ UNCHANGED <<ret, max_iterations, archive, inbound, session_key, channel, chat_id,
                   iteration, final_content, tools_used, messages, response, tcIdx,
                   result, decisions>>
    /\ UNCHANGED busVars

\* the caller of _process_message publishes the returned message
Respond ==
    /\ pc = "returned"
    /\ PublishOutbound(outbox, "done")
    /\ UNCHANGED <<max_iterations, archive, inbound, session_key, channel, chat_id, iteration,
                   final_content, tools_used, messages, response, tcIdx, result,
                   outbox, sessions, saves, decisions>>

FailureText == "Sorry, I encountered an error"

\* the caller of _process_message answers a failed turn with a failure message
RespondFailure ==
    /\ pc = "raised"
    /\ PublishOutbound(Event(channel, chat_id, FailureText,
                             [event_type |-> "message"]), "done")
    /\ UNCHANGED <<max_iterations, archive, inbound, session_key, channel, chat_id, iteration,
                   final_content, tools_used, messages, response, tcIdx, result,
                   outbox, sessions, saves, decisions>>

\* ------------------------------------------------------------ specifications
\* a session left by earlier turns of the conversation web:a
History0 == <<[role |-> "user", content |-> "earlier", tools_used |-> None],
              [role |-> "assistant", content |-> "reply", tools_used |-> None]>>

InitBus ==
    /\ event_queues = <<>>
    /\ queue = [h \in Sinks |-> <<>>]
    /\ gen = [h \in Sinks |-> "new"]
    /\ lastExit = "none"
    /\ gchat = [h \in Sinks |-> ""]
    /\ yielded = [h \in Sinks |-> <<>>]
    /\ sendPc = "none"
    /\ sendMsg = NoMsg
    /\ sendIdx = 1
    /\ sendDetached = FALSE
    /\ sendTarget = 0
    /\ published = <<>>
    /\ received = [h \in Sinks |-> <<>>]
    /\ expected = [h \in Sinks |-> <<>>]

InitAgent ==
    /\ pc = "idle"
    /\ ret = "idle"
    /\ max_iterations \in 0..MaxIter
    /\ inbound = NoInbound
    /\ session_key = ""
    /\ channel = ""
    /\ chat_id = ""
    /\ iteration = 0
    /\ final_content = None
    /\ tools_used = <<>>
    /\ messages = <<>>
    /\ response = NoResponse
    /\ tcIdx = 1
    /\ result = None
    /\ outbox = NoMsg
    /\ sessions = [k \in {"web:a"} |-> History0]
    /\ saves = 0
    /\ archive = NoArchive
    /\ decisions = <<>>

Init == InitBus /\ InitAgent

HandlerStep(h) ==
    \/ \E c \in SubIds : Subscribe(h, c)
    \/ Consume(h)
    \/ ExitCancel(h)
    \/ ExitError(h)
    \/ ExitClose(h)

\* the channel alone, with the dispatcher calling send
NextBus ==
    \/ \E msg \in BusMsgs : Publish(msg)
    \/ SendNext
    \/ SendPut
    \/ SendReturn
    \/ \E h \in Sinks : HandlerStep(h)

\* the agent loop stays idle here, so one iteration budget stands for all
InitIdle == Init /\ max_iterations = 0

SpecBus == InitIdle /\ [][NextBus]_vars

\* a stream client that connects before its unit of work is submitted
ConnectFirst(h, c) ==
    /\ inbound = NoInbound
    /\ Subscribe(h, c)

AgentStep ==
    \/ While
    \/ \E r \in Decisions : ChatReturns(r)
    \/ ChatRaises
    \/ HasToolCalls
    \/ ForTool
    \/ ToolReturns
    \/ AddResult
    \/ AfterLoop
    \/ Respond
    \/ RespondFailure
    \/ SendNext
    \/ SendPut
    \/ SendReturn

\* one turn of the agent loop publishing to the channel; the stream clients
\* of the conversation are connected beforehand and do not read during the turn
Next ==
    \/ \E msg \in InMsgs : StartTurn(msg)
    \/ While
    \/ \E r \in Decisions : ChatReturns(r)
    \/ ChatRaises
    \/ HasToolCalls
    \/ ForTool
    \/ ToolReturns
    \/ AddResult
    \/ AfterLoop
    \/ Respond
    \/ RespondFailure
    \/ SendNext
    \/ SendPut
    \/ SendReturn
    \/ \E ok \in BOOLEAN : Archive(ok)
    \/ \E h \in 1..TurnSinks, c \in SubIds : ConnectFirst(h, c)

Spec == Init /\ [][Next]_vars

\* a task that can run is run: the event loop resumes the agent task and the
\* send it is in
FairSpec == Spec /\ WF_vars(AgentStep)

\* ------------------------------------------------------------------ claims
Count(s, x) == Cardinality({i \in 1..Len(s) : s[i] = x})

InRegistry(h) == \E k \in DOMAIN event_queues : InList(event_queues[k], h)

Quiescent == sendPc = "none"

\* C1: between two sends, every sink's inbox has received exactly the messages
\* published while it was registered (under its own conversation id or, for a
\* wildcard sink, under any id), each once and in publish order.
C1_InboxIsSubscriptionWindow ==
    Quiescent => \A h \in Sinks : received[h] = expected[h]

\* C2: when send(msg) returns, msg has been enqueued exactly once into every
\* sink registered under msg.chat_id or under "*", and into no other sink.
C2_PublishEnqueuesOncePerSink ==
    sendPc = "return" =>
        \A h \in Sinks :
            Count(received[h], Len(published)) =
                IF Registered(h) /\ gchat[h] \in {sendMsg.chat_id, "*"} THEN 1 ELSE 0

\* C3: a handler that has left (by cancellation, by an error in the consume
\* loop or by being closed) has no sink in the registry, and send never puts
\* into the queue of such a handler, so later publishes run to completion.
C3_ExitUnregisters ==
    \A h \in Sinks : gen[h] = "done" => ~InRegistry(h) /\ sendTarget # h

\* a handler left through the error path, and a later publish to its
\* conversation id has returned
C3_Witness ==
    \E h \in Sinks :
        /\ gen[h] = "done" /\ lastExit = "failed"
        /\ sendPc = "return" /\ sendMsg.chat_id = gchat[h]
        /\ Len(published) \notin {expected[h][i] : i \in 1..Len(expected[h])}

\* C4: no key of the registry maps to an empty list, and no sink occurs twice
\* in a list.
C4_NoEmptyNoDuplicate ==
    \A k \in DOMAIN event_queues :
        /\ event_queues[k] # <<>>
        /\ \A i, j \in 1..Len(event_queues[k]) :
              event_queues[k][i] = event_queues[k][j] => i = j

\* the last sink of a conversation id has left while another conversation id
\* still has one, and a publish is running
C4_Witness ==
    /\ \E h \in Sinks : gen[h] = "done" /\ gchat[h] \notin DOMAIN event_queues
    /\ \E h \in Sinks : gen[h] = "open"
    /\ sendPc = "put_wild"

\* C5: while a publish is in flight and when it returns, every sink that was
\* registered when it was called and still is has been given the message at
\* most once, and exactly once by the time send returns; sinks that were not
\* registered for it are given nothing.
C5_InFlightPublishOncePerSink ==
    sendPc # "none" =>
        \A h \in Sinks :
            LET n == Count(received[h], Len(published))
                due == Registered(h) /\ Count(expected[h], Len(published)) = 1
            IN  /\ n <= (IF due THEN 1 ELSE 0)
                /\ sendPc = "return" /\ due => n = 1

\* the kind of a published message as the stream shows it: line 107
Kind(m) == MetaGet(m.metadata, "event_type", "message")

IsReasoning(m) == Kind(m) = "thinking" /\ "is_reasoning" \in DOMAIN m.metadata

IsAnnounce(m) == Kind(m) = "thinking" /\ "is_reasoning" \notin DOMAIN m.metadata

IsKind(k, m) == Kind(m) = k

NumKind(k) == Cardinality({i \in 1..Len(published) : Kind(published[i]) = k})

NotReasoning(m) == ~IsReasoning(m)

\* the events of the turn without the reasoning events
Trace == SelectSeq(published, NotReasoning)

TurnStarted == inbound # NoInbound

\* provider.chat raised in this turn
DecisionFailed == decisions # <<>> /\ decisions[Len(decisions)].raised

\* every decision of the turn so far was returned, with k tool calls
AllDecisions(k) ==
    \A i \in 1..Len(decisions) : ~decisions[i].raised /\ decisions[i].calls = k

NumReasoned == Cardinality({i \in 1..Len(decisions) : decisions[i].reasoning})

\* C6: the agent task never waits for a subscriber to read: no put of send ever
\* finds its queue full, and until the turn has published its terminal message
\* the agent task (or the send it is in) always has a next step of its own,
\* although no subscriber ever reads its inbox.
C6_PublisherNeverWaits ==
    /\ ~SendBlocked
    /\ TurnStarted /\ pc # "done" => ENABLED AgentStep

\* the same as a progress property of FairSpec: a turn, once begun, reaches its
\* end
TurnCompletes == TurnStarted ~> (pc = "done")

\* the turn is over, and a subscriber that never read holds several events
C6_Witness ==
    /\ pc = "done"
    /\ \E h \in Sinks :
          /\ Registered(h)
          /\ Len(queue[h]) >= 3
          /\ yielded[h] = <<JsonObject(Connected(gchat[h]))>>

\* C7: a turn publishes at most one message event, nothing is published after
\* it, and a finished turn has published exactly one, whether it ended with an
\* answer, by exhausting its iterations or by a failure of the decision step.
C7_OneTerminalMessage ==
    /\ NumKind("message") <= 1
    /\ \A i \in 1..Len(published) :
          Kind(published[i]) = "message" => i = Len(published)
    /\ pc = "done" => NumKind("message") = 1

\* a turn that exhausted its iterations has ended, after tool events
C7_Witness ==
    /\ pc = "done"
    /\ max_iterations >= 1 /\ AllDecisions(1) /\ Len(decisions) = max_iterations
    /\ NumKind("tool_result") >= 1
    /\ Kind(published[Len(published)]) = "message"

\* C8 as claimed, for an iteration budget of at least one: with decisions that
\* carry no tool call, the loop ends after one iteration with the decision's
\* content, one thinking event and no tool_call or tool_result event.
C8_NoToolCallsOneThinking ==
    pc = "after_loop" /\ AllDecisions(0) /\ max_iterations >= 1 =>
        /\ iteration = 1
        /\ final_content = response.content
        /\ NumKind("thinking") = 1
        /\ NumKind("tool_call") = 0 /\ NumKind("tool_result") = 0

\* C8 amended: with max_iterations >= 1 and a decision that carries no tool
\* call, the loop ends after one iteration with the decision's content, one
\* announcing thinking event, one more thinking event exactly when the decision
\* carries reasoning content, and no tool_call or tool_result event.
C8_NoToolCallsOneIteration ==
    pc = "after_loop" /\ AllDecisions(0) /\ max_iterations >= 1 =>
        /\ iteration = 1
        /\ Len(decisions) = 1
        /\ final_content = response.content
        /\ Len(Trace) = 1 /\ IsAnnounce(Trace[1]) /\ Trace[1].metadata.iteration = 1
        /\ NumKind("thinking") = 1 + NumReasoned
        /\ NumKind("tool_call") = 0 /\ NumKind("tool_result") = 0

\* the loop has ended on a decision with reasoning content and no tool call
C8_Witness ==
    /\ pc = "after_loop"
    /\ decisions = <<[calls |-> 0, reasoning |-> TRUE, raised |-> FALSE]>>

\* the events of iteration i of a turn whose decisions all carry one tool call
OneCallIteration(i) ==
    LET a == Trace[3 * i - 2]
        c == Trace[3 * i - 1]
        r == Trace[3 * i]
    IN  /\ IsAnnounce(a) /\ a.metadata.iteration = i
        /\ Kind(c) = "tool_call" /\ c.metadata.iteration = i
        /\ Kind(r) = "tool_result" /\ r.metadata.iteration = i
        /\ r.metadata.tool_call_id = c.metadata.tool_call_id
        /\ r.metadata.tool = c.metadata.tool

\* C9 as claimed: with decisions that all carry one tool call, the loop ends at
\* max_iterations without final content, after max_iterations thinking events
\* and max_iterations tool_call/tool_result pairs, each tagged with its iteration.
C9_ExhaustedMaxThinking ==
    pc = "after_loop" /\ AllDecisions(1) =>
        /\ iteration = max_iterations /\ final_content = None
        /\ NumKind("thinking") = max_iterations
        /\ Len(Trace) = 3 * max_iterations
        /\ \A i \in 1..max_iterations : OneCallIteration(i)

\* C9 amended: with decisions that all carry one tool call, the loop ends at
\* max_iterations without final content; apart from one reasoning thinking
\* event per decision that carries reasoning content, the events are, for each
\* iteration 1..max_iterations in turn, an announcing thinking event, a
\* tool_call and its tool_result, each tagged with that iteration.
C9_ExhaustedAtMax ==
    pc = "after_loop" /\ AllDecisions(1) =>
        /\ iteration = max_iterations /\ final_content = None
        /\ Len(decisions) = max_iterations
        /\ NumKind("thinking") = max_iterations + NumReasoned
        /\ Len(Trace) = 3 * max_iterations
        /\ \A i \in 1..max_iterations : OneCallIteration(i)
        /\ tools_used = [i \in 1..max_iterations |-> ToolName(1)]

\* the loop has run out after two or more iterations of one tool call each,
\* one of them with reasoning content
C9_Witness ==
    /\ pc = "after_loop"
    /\ max_iterations >= 2 /\ AllDecisions(1) /\ NumReasoned >= 1

\* the history the session of the turn had when the turn began
HistoryBefore == IF session_key = "web:a" THEN History0 ELSE <<>>

InQueue(h, m) == \E i \in 1..Len(queue[h]) : queue[h][i] = m

\* C10: once provider.chat has failed, the turn has left _process_message by
\* the exception: it returned no message, the session's history is what it was
\* before the turn and was not saved, and the events published before the
\* failure are still in the inboxes of the conversation's subscribers.
C10_FailureAbandonsTurn ==
    DecisionFailed =>
        /\ pc \in {"raised", "publish", "done"}
        /\ pc # "raised" => ret = "done"
        /\ outbox = NoMsg
        /\ sessions[session_key] = HistoryBefore
        /\ saves = 0
        /\ \A h \in Sinks : \A i \in 1..Len(published) :
              /\ Registered(h) /\ gchat[h] \in {chat_id, "*"}
              /\ Kind(published[i]) # "message"
              => InQueue(h, published[i])

\* the decision step failed in a later iteration of a turn of a conversation
\* that has a history and a subscriber
C10_Witness ==
    /\ DecisionFailed /\ Len(decisions) >= 2
    /\ pc = "done"
    /\ session_key = "web:a"
    /\ \E h \in Sinks : Registered(h) /\ gchat[h] = chat_id /\ Len(queue[h]) >= 4

\* the published message behind the i-th record handler h has yielded
Forwarded(h, i) == published[received[h][i - 1]]

\* C13: the first record of an open stream is the connected event naming the
\* requested conversation id, every later record is a forwarded message, the
\* sink is registered from the moment connected is emitted, and once send has
\* returned every message published for the conversation (or for any, for a
\* wildcard stream) since then has been put into the handler's inbox.
C13_ConnectedFirstThenRegistered ==
    \A h \in Sinks : gen[h] = "open" =>
        /\ yielded[h] # <<>>
        /\ yielded[h][1] = JsonObject(Connected(gchat[h]))
        /\ \A i \in 2..Len(yielded[h]) :
              yielded[h][i] = Dumps(Data(Forwarded(h, i)))
        /\ Registered(h)
        /\ Quiescent =>
              \A i \in 1..Len(expected[h]) : InList(received[h], expected[h][i])

\* an open stream has forwarded a message published after its connected event
C13_Witness ==
    \E h \in Sinks :
        /\ gen[h] = "open" /\ Quiescent
        /\ Len(yielded[h]) >= 2
        /\ expected[h] # <<>> /\ InList(received[h], expected[h][1])

\* no sink is registered for the message of the running send
NoSinkFor(msg) ==
    msg.chat_id \notin DOMAIN event_queues /\ "*" \notin DOMAIN event_queues

\* C15: a send whose message has no sink under its conversation id and none
\* under the wildcard changes neither the registry (no key is created) nor any
\* inbox, and runs straight to its return.
C15_PublishWithoutSinksIsNoOp ==
    [][ /\ sendPc' # "none" /\ NoSinkFor(sendMsg') =>
              event_queues' = event_queues /\ queue' = queue /\ received' = received
        /\ sendPc # "none" /\ NoSinkFor(sendMsg) =>
              sendPc' \in {"if_wild", "return", "none"} ]_vars

\* such a send has returned while another conversation id has a sink
C15_Witness ==
    /\ sendPc = "return" /\ NoSinkFor(sendMsg)
    /\ event_queues # <<>>
    /\ \A h \in Sinks : ~InList(received[h], Len(published))

\* C16: every record a stream has forwarded parses back to the published
\* message: its metadata has the same keys and values, and its event_type,
\* content and chat_id are the kind, content and conversation id published.
C16_ForwardKeepsEnvelope ==
    \A h \in Sinks : \A i \in 2..Len(yielded[h]) :
        LET m == Forwarded(h, i)
            d == Loads(yielded[h][i])
        IN  /\ Loads(d.metadata) = m.metadata
            /\ d.event_type = MetaGet(m.metadata, "event_type", "message")
            /\ d.content = m.content
            /\ d.chat_id = m.chat_id

\* a stream has forwarded a message whose metadata is {iteration: 3, tool:
\* "search"} and one that carries an event_type
C16_Witness ==
    \E h \in Sinks :
        /\ \E i \in 2..Len(yielded[h]) :
              Forwarded(h, i).metadata = [iteration |-> 3, tool |-> "search"]
        /\ \E i \in 2..Len(yielded[h]) :
              "event_type" \in DOMAIN Forwarded(h, i).metadata

\* the turn has returned from _process_message
Returned ==
    /\ pc \in {"returned", "done"} \/ (pc = "publish" /\ ret = "done")
    /\ ~DecisionFailed

\* C11: a unit of work whose content is the /new command (after strip and
\* lower) never reaches provider.chat, and once processing has returned the
\* returned text is the fixed acknowledgement and the session's messages are
\* empty, whatever the detached archiving task has done by then.
C11_NewConversationResets ==
    TurnStarted /\ Cmd(inbound.content) = "/new" =>
        /\ pc # "await_chat" /\ decisions = <<>>
        /\ Returned =>
              /\ outbox.content = NewText
              /\ sessions[session_key] = <<>>

\* C12: for a system unit of work whose chat id has a colon, channel is the
\* text before the first colon, chat_id all the text after it and the session
\* key the chat id itself; without a colon the channel is "cli" and chat_id
\* the whole text; every message published in the turn, the terminal one
\* included, carries that channel and chat_id.
C12_SystemOriginResolved ==
    TurnStarted /\ inbound.channel = "system" =>
        LET parts == inbound.chat_id
        IN  /\ IF \E i \in 1..Len(parts) : parts[i] = ":"
               THEN /\ \E i \in 1..Len(parts) :
                          /\ parts[i] = ":"
                          /\ \A j \in 1..(i-1) : parts[j] # ":"
                          /\ channel = Join(SubSeq(parts, 1, i - 1))
                          /\ chat_id = Join(SubSeq(parts, i + 1, Len(parts)))
                    /\ session_key = Join(parts)
               ELSE channel = "cli" /\ chat_id = Join(parts)
            /\ parts = <<"web", ":", "a", ":", "b">> =>
                  channel = "web" /\ chat_id = "a:b" /\ session_key = "web:a:b"
            /\ \A i \in 1..Len(published) :
                  published[i].channel = channel /\ published[i].chat_id = chat_id

\* a system turn whose chat id has two colons has ended after tool events
C12_Witness ==
    /\ pc = "done" /\ ~DecisionFailed
    /\ inbound.channel = "system" /\ inbound.chat_id = <<"web", ":", "a", ":", "b">>
    /\ NumKind("tool_result") >= 1
    /\ Kind(published[Len(published)]) = "message"

\* published[i] is the tool_result event of the tool_call event published[c]
ResultOf(i, c) ==
    /\ i \in 1..Len(published)
    /\ Kind(published[i]) = "tool_result"
    /\ published[i].metadata.tool_call_id = published[c].metadata.tool_call_id
    /\ published[i].metadata.tool = published[c].metadata.tool
    /\ published[i].metadata.iteration = published[c].metadata.iteration

\* the execution of the current tool call is under way or about to start
Executing == pc = "await_tool" \/ (pc = "publish" /\ ret = "await_tool")

\* C14: a tool whose execution fails does not end the turn: only a failure of
\* provider.chat does; the tool_result event of the call is published with the
\* failure text as content, the tool entry with that text is appended to the
\* context, and the loop goes on, so every tool_call event is followed by the
\* tool_result event of the same call as soon as the execution has returned.
C14_ToolFailureIsResult ==
    /\ pc = "raised" => DecisionFailed
    /\ \A c \in 1..Len(published) : Kind(published[c]) = "tool_call" =>
          \/ c = Len(published) /\ Executing
          \/ /\ ResultOf(c + 1, c)
             /\ published[c + 1].content = Execute(published[c].metadata.tool)
    /\ pc = "for_tool" /\ tcIdx > 1 =>
          LET tc == response.tool_calls[tcIdx - 1]
          IN  messages[Len(messages)] =
                 [role |-> "tool", tool_call_id |-> tc.id, name |-> tc.name,
                  content |-> Execute(tc.name)]

\* the first tool of an iteration failed, the second was then called, and a
\* later iteration has begun
C14_Witness ==
    /\ iteration >= 2
    /\ \E c \in 1..(Len(published) - 2) :
          /\ Kind(published[c]) = "tool_call" /\ published[c].metadata.iteration = 1
          /\ IsFailure(published[c + 1].content)
          /\ Kind(published[c + 2]) = "tool_call"
          /\ published[c + 2].metadata.iteration = 1

\* the entries the context got from a decision with the tool calls 1..k
ToolEntries(k) ==
    [j \in 1..k |-> [role |-> "tool", tool_call_id |-> j, name |-> ToolName(j),
                     content |-> Execute(ToolName(j))]]

IsToolCall(m) == Kind(m) = "tool_call"

IsToolResult(m) == Kind(m) = "tool_result"

\* C17: tool calls run one at a time and their events bracket the execution:
\* while a tool executes, the last message published is the tool_call event of
\* that call and all earlier tool_call events have their tool_result; a
\* tool_call event is never published while another call has no tool_result
\* yet; and provider.chat is awaited again only when the context ends with the
\* tool entries of all calls of the previous decision and the reflection entry.
C17_ToolCallsSequential ==
    /\ Len(SelectSeq(published, IsToolCall)) - Len(SelectSeq(published, IsToolResult))
          = (IF Executing THEN 1 ELSE 0)
    /\ Executing =>
          LET tc == response.tool_calls[tcIdx]
              m == published[Len(published)]
          IN  /\ Kind(m) = "tool_call"
              /\ m.metadata.tool_call_id = tc.id /\ m.metadata.tool = tc.name
              /\ m.metadata.iteration = iteration
    /\ \A c \in 1..Len(published) :
          Kind(published[c]) = "tool_call" /\ c < Len(published) => ResultOf(c + 1, c)
    /\ pc = "await_chat" /\ iteration > 1 =>
          LET k == decisions[iteration - 1].calls
              n == Len(messages)
          IN  /\ k >= 1
              /\ messages[n] = Reflection
              /\ SubSeq(messages, n - k, n - 1) = ToolEntries(k)

\* the second tool of the second iteration is executing
C17_Witness ==
    /\ pc = "await_tool" /\ iteration = 2 /\ tcIdx = 2
    /\ NumKind("tool_result") >= 2

\* the engine was entered: the model context of the turn was built
Engaged == messages # <<>>

IsPrefix(a, b) == Len(a) <= Len(b) /\ SubSeq(b, 1, Len(a)) = a

\* the entries a returned decision with k tool calls adds to the context
Block(k) ==
    IF k = 0 THEN <<>>
    ELSE <<[role |-> "assistant", content |-> "ans",
            tool_calls |-> [j \in 1..k |-> [id |-> j, name |-> ToolName(j),
                                            arguments |-> "{}"]]]>>
         \o ToolEntries(k) \o <<Reflection>>

RECURSIVE Blocks(_)
Blocks(ds) == IF ds = <<>> THEN <<>> ELSE Block(Head(ds).calls) \o Blocks(Tail(ds))

RECURSIVE Names(_)
Names(ds) ==
    IF ds = <<>> THEN <<>>
    ELSE [j \in 1..Head(ds).calls |-> ToolName(j)] \o Names(Tail(ds))

\* the loop is between two iterations, or over
BetweenIterations == pc \in {"while", "after_loop"}

\* C18: the context of a turn only grows, and between two iterations it is the
\* initial context followed, for each decision so far that carried k >= 1 tool
\* calls, by the assistant entry with the calls, the k tool entries in call
\* order and the reflection entry (k + 2 entries), and by nothing for a decision
\* without tool calls; tools_used is the names of the calls in the same order.
C18_ContextGrowsByBlocks ==
    /\ [][TurnStarted => IsPrefix(messages, messages')]_vars
    /\ [](Engaged /\ BetweenIterations =>
            /\ messages = BuildMessages(HistoryBefore, Join(inbound.content))
                              \o Blocks(decisions)
            /\ tools_used = Names(decisions)
            /\ \A i \in 1..Len(decisions) :
                  Len(Block(decisions[i].calls)) =
                     IF decisions[i].calls = 0 THEN 0 ELSE decisions[i].calls + 2)

\* the loop is over after an iteration with two tool calls and one with one
C18_Witness ==
    /\ pc = "after_loop"
    /\ Len(decisions) = 2 /\ decisions[1].calls = 2 /\ decisions[2].calls = 1
    /\ Len(messages) = Len(BuildMessages(HistoryBefore, "")) + 7

\* the fallback text of the turn's channel
FallbackText ==
    IF inbound.channel = "system" THEN "Background task completed."
    ELSE "I've completed processing but have no response to give."

\* every decision of the turn was returned and carried tool calls
AllWithCalls ==
    \A i \in 1..Len(decisions) : ~decisions[i].raised /\ decisions[i].calls >= 1

\* C19: provider.chat is called at most max_iterations times in a turn, none
\* at all and with no event before the terminal message when max_iterations is
\* 0; a turn in which every decision carried tool calls ends without final
\* content and without failing, and what it returns and appends to the session
\* as the assistant entry is the fixed fallback text.
C19_ExhaustionFallsBack ==
    /\ Len(decisions) <= max_iterations /\ iteration <= max_iterations
    /\ max_iterations = 0 =>
          \A i \in 1..Len(published) : Kind(published[i]) = "message"
    /\ Engaged /\ AllWithCalls /\ Returned =>
          /\ Len(decisions) = max_iterations
          /\ final_content = None
          /\ outbox.content = FallbackText
          /\ LET hist == sessions[session_key]
             IN  /\ Len(hist) = Len(HistoryBefore) + 2
                 /\ hist[Len(hist)].role = "assistant"
                 /\ hist[Len(hist)].content = FallbackText
          /\ pc = "done" => published[Len(published)] = outbox

\* a turn of two iterations with tool calls has ended with the fallback text
C19_Witness ==
    /\ pc = "done" /\ Engaged /\ AllWithCalls
    /\ max_iterations = 2 /\ Len(decisions) = 2
    /\ published[Len(published)].content = FallbackText

\* C20: a unit of work enters the engine exactly when its content, stripped
\* and lower-cased, is neither /new nor /help (content that goes on after a
\* command does enter it); a /help unit never reaches provider.chat, publishes
\* nothing but its terminal message, leaves the session's messages as they
\* were and returns the fixed help text.
C20_CommandsShortCircuit ==
    TurnStarted =>
        /\ Engaged <=> Cmd(inbound.content) \notin {"/new", "/help"}
        /\ Cmd(inbound.content) = "/help" =>
              /\ pc # "await_chat" /\ decisions = <<>>
              /\ \A i \in 1..Len(published) : Kind(published[i]) = "message"
              /\ sessions[session_key] = HistoryBefore
              /\ Returned => outbox.content = HelpText

\* the iteration tag of the j-th published message; 0 before the first one
TagAt(j) == IF j = 0 THEN 0 ELSE MetaGet(published[j].metadata, "iteration", 0)

\* C21: every event the loop publishes carries an iteration tag in
\* 1..max_iterations that is the number of iterations begun: one more than the
\* tag of the event before it (1 for the first event) when it is an announcing
\* thinking event, and the same tag as the event before it when it is a
\* reasoning, tool_call or tool_result event; so the announcing events carry
\* 1, 2, ..., n, every other event carries the tag of the latest announcing
\* event, and the tags never decrease.
C21_IterationTagsConsecutive ==
    [][published' # published =>
          LET e == published'[Len(published')]
              tag == e.metadata.iteration
          IN  /\ published' = Append(published, e)
              /\ Kind(e) # "message" =>
                    /\ tag \in 1..max_iterations
                    /\ tag = iteration'
                    /\ tag = IF IsAnnounce(e)
                             THEN TagAt(Len(published)) + 1
                             ELSE TagAt(Len(published))]_vars

\* a turn of two iterations has ended: tool events tagged 1, then a reasoning
\* event tagged 2
C21_Witness ==
    /\ pc = "done" /\ iteration = 2
    /\ \E i \in 1..Len(published) :
          Kind(published[i]) = "tool_result" /\ published[i].metadata.iteration = 1
    /\ \E i \in 1..Len(published) :
          IsReasoning(published[i]) /\ published[i].metadata.iteration = 2

\* the list registered under k, without the sink of handler h
Without(d, k, h) ==
    IF k \in DOMAIN d THEN SelectSeq(d[k], LAMBDA q : q # h) ELSE <<>>

\* the list registered under k, empty when there is no entry
ListAt(d, k) == IF k \in DOMAIN d THEN d[k] ELSE <<>>

\* C22: the step by which handler h leaves changes the registry only by taking
\* the sink of h out of the list of its conversation id: the lists of all
\* other ids are the same, the other sinks of its id stay in the same order,
\* no inbox of another handler changes, and the entry of its id is deleted
\* exactly when the sink of h was the only one in it.
C22_ExitRemovesOnlyOwnSink ==
    [][\A h \in Sinks : gen[h] = "open" /\ gen'[h] = "done" =>
          /\ DOMAIN event_queues' \subseteq DOMAIN event_queues
          /\ \A k \in DOMAIN event_queues \ {gchat[h]} :
                k \in DOMAIN event_queues' /\ event_queues'[k] = event_queues[k]
          /\ ListAt(event_queues', gchat[h]) = Without(event_queues, gchat[h], h)
          /\ gchat[h] \notin DOMAIN event_queues' <=>
                ListAt(event_queues, gchat[h]) = <<h>>
          /\ \A g \in Sinks \ {h} : queue'[g] = queue[g]]_vars

\* the first of two sinks of a conversation id has left by cancellation while
\* the second, with pending messages, is still registered
C22_Witness ==
    \E h, g \in Sinks :
        /\ h < g
        /\ gen[h] = "done" /\ lastExit = "cancelled" /\ gen[g] = "open"
        /\ gchat[g] = gchat[h]
        /\ event_queues[gchat[g]] = <<g>>
        /\ Len(queue[g]) >= 2

====
